---- MODULE Spec2Model ----
(***************************************************************************)
(* A model of source/detail/crypto/xlsx_crypto.cpp: decrypt_xlsx (the      *)
(* dispatcher), decrypt_xlsx_standard and decrypt_xlsx_agile.              *)
(*                                                                         *)
(* One call of decrypt_xlsx is followed from its entry to its return or    *)
(* its exception.  Byte buffers are kept by their sizes; the value of a    *)
(* field is supplied when the code reads it, from a small set that holds   *)
(* every value the code distinguishes.  A read the code makes past the     *)
(* end of a buffer is undefined behaviour: it either faults or yields an   *)
(* arbitrary value, and both outcomes are kept.                            *)
(***************************************************************************)
EXTENDS Integers, Sequences, FiniteSets, TLC

VARIABLES
    bytes,              \* the container handed to decrypt_xlsx
    pc,                 \* the position of the call in the code
    result,             \* "" while running, "ok", or what was thrown
    returned,           \* the buffer decrypt_xlsx returns
    storage_opened,     \* POLE::Storage::open was called
    encrypted_package,  \* the EncryptedPackage stream, as read by file()
    encryption_info,    \* the EncryptionInfo stream, as read by file()
    hdr,                \* version_major, version_minor, encryption_flags
    std,                \* locals of decrypt_xlsx_standard
    agile,              \* locals of decrypt_xlsx_agile
    reads,              \* every access to a buffer, in order
    calls               \* every hash / AES call, in order

vars == <<bytes, pc, result, returned, storage_opened, encrypted_package,
          encryption_info, hdr, std, agile, reads, calls>>

----------------------------------------------------------------------------
(* Bounds of the model *)

\* the EncryptedPackage streams hold up to MaxSegments full segments
MaxSegments == 2

\* the keyEncryptor element holds up to MaxChildren children
MaxChildren == 2

\* the turns of the key-derivation loop of the agile scheme that are walked
MaxRounds == 6

----------------------------------------------------------------------------
(* Constants of the code *)

ole_segment_length == 4096

\* decrypt_xlsx_standard: spin_count of standard_encryption_info
standard_spin_count == 50000

\* sizeof(std::uint16_t), sizeof(std::uint32_t), sizeof(std::uint64_t)
SizeofU16 == 2
SizeofU32 == 4
SizeofU64 == 8

\* std::size_t wraps at 2^64.  TLC's integers are 32 bits wide, so the model
\* wraps at 2^30 instead: every size and offset of the model is far below it,
\* and a wrapped difference lands above VectorMaxSize as it does in the code
SizeTModulus == 2^30

\* std::vector<std::uint8_t>::max_size(): half of the std::size_t range
VectorMaxSize == SizeTModulus \div 2 - 1

\* the digest sizes of sha1 and sha512
HashSize(h) == IF h = "sha512" THEN 64 ELSE 20

Min(a, b) == IF a < b THEN a ELSE b
Max(a, b) == IF a > b THEN a ELSE b

\* bit k of the word n: (n & (1 << k)) != 0
Bit(n, k) == (n \div (2^k)) % 2 = 1

----------------------------------------------------------------------------
(* Buffers *)

\* a stream the container does not hold: POLE::Stream::fail()
NoStream == [present |-> FALSE, size |-> 0]
Streams(sizes) == {NoStream} \cup [present : {TRUE}, size : sizes]
NoBuffer == [size |-> -1, filler |-> 0]

\* file(): the bytes of a named stream, empty when the stream is absent
file(stream) == IF stream.present THEN stream.size ELSE 0

\* read_int<T>(index, raw_data) dereferences &raw_data[index] with no check:
\* the read is inside the buffer exactly when this holds
InBounds(offset, size, len) == offset >= 0 /\ size >= 0 /\ offset + size <= len

Access(buf, field, offset, size, len) ==
    [buf |-> buf, field |-> field, offset |-> offset, size |-> size, len |-> len]

AccessInBounds(a) == InBounds(a.offset, a.size, a.len)

\* an access outside its buffer has happened: the behaviour is undefined
UbOccurred == \E i \in 1..Len(reads) : ~AccessInBounds(reads[i])

\* std::vector::resize(n): the first n bytes, then value-initialised filler
Resize(size, n) == [size |-> n, filler |-> Max(0, n - size)]

----------------------------------------------------------------------------
(* Inputs *)

\* sizes of the EncryptionInfo stream: the 8-byte version and flags, then the
\* standard header cut after each group of fields (36 bytes of fixed fields,
\* a 108 or 132 byte provider name, 4 + 16 bytes of salt, 16 bytes of
\* verifier input, 4 + 32 bytes of verifier hash)
InfoSizes == {0, 4, 8, 20, 24, 44, 152, 172, 188, 224, 248}

\* sizes of the EncryptedPackage stream: shorter than the length prefix, and
\* the prefix followed by a whole number of AES blocks around each multiple
\* of the segment length
PackageSizes ==
    {0, 4} \cup
    {s \in {SizeofU64 + k * ole_segment_length + d :
                k \in 0..MaxSegments, d \in {-16, 0, 16}} : s >= SizeofU64}

Containers ==
    {[size |-> 0, ole |-> FALSE, info |-> NoStream, package |-> NoStream]}
    \cup {[size |-> 512, ole |-> FALSE, info |-> NoStream, package |-> NoStream]}
    \cup [size : {512}, ole : {TRUE},
          info : Streams(InfoSizes),
          package : Streams(PackageSizes)]

VersionMajors == {2, 3, 4, 5}
VersionMinors == {2, 3, 4}
\* 0x40 (agile), 0x24 and 0x64 (fCryptoAPI | fAES), and words that break one
\* of the conditions each: 0x25, 0x26 (reserved bits), 0x20 (no fCryptoAPI),
\* 0x34 (fExternal), 0x04 (no fAES), 0, 0x41
FlagWords == {64, 36, 100, 37, 38, 32, 52, 4, 0, 65}

----------------------------------------------------------------------------
(* Initial state *)

\* what a digest was computed from: the seed, and the iterators of the rounds
\* hashed on top of it, the oldest first; a vector with no bytes has no seed
Digest(seed, iterators) == [seed |-> seed, iterators |-> iterators]

\* line 478: std::vector<std::uint8_t> h_n
EmptyVector == Digest("", <<>>)

\* a key, by where its bytes come from: the bytes of X3 = X1 + X2 it begins
\* with, and the bytes of whatever lies past the end of X3 that follow them
KeyDerived(key_bytes, X3) ==
    [X3 |-> Min(key_bytes, X3), past_the_end |-> Max(0, key_bytes - X3)]

NoKey == KeyDerived(0, 0)

HdrInit == [version_major |-> 0, version_minor |-> 0, encryption_flags |-> 0]

StdInit ==
    [offset |-> 0, index_at_start |-> 0, header_length |-> 0, alg_id |-> 0,
     cipher |-> "", alg_id_hash |-> 0, key_bits |-> 0, key_bytes |-> 0,
     csp_name_length |-> 0, key_derived |-> NoKey, decrypted_size |-> 0]

AgileInit ==
    [any_password_key |-> FALSE, children |-> <<>>, hash |-> "",
     spin_count |-> 0, calculated_verifier |-> "", expected_verifier |-> "",
     iterator |-> 0, iterator_plus_h_n |-> EmptyVector, h_n |-> EmptyVector,
     salt_size |-> 0, salt_value |-> 0,
     total_size |-> 0, i |-> 0, segment |-> 0, decrypted_package |-> 0,
     segments |-> <<>>]

Init ==
    /\ bytes \in Containers
    /\ pc = "start"
    /\ result = ""
    /\ returned = NoBuffer
    /\ storage_opened = FALSE
    /\ encrypted_package = [size |-> 0]
    /\ encryption_info = [size |-> 0, erased |-> 0]
    /\ hdr = HdrInit
    /\ std = StdInit
    /\ agile = AgileInit
    /\ reads = <<>>
    /\ calls = <<>>

----------------------------------------------------------------------------
(* Ways a step ends the call *)

Throw(what) == pc' = "done" /\ result' = what

\* the outcome of an out-of-bounds access that the hardware catches
Fault == Throw("SIGSEGV")

Return(buffer) == pc' = "done" /\ result' = "ok" /\ returned' = buffer

----------------------------------------------------------------------------
(* decrypt_xlsx: the dispatcher *)

\* the check of line 562 left out
BytesEmpty_Never(b) == FALSE

BytesEmpty(b) == b.size = 0

\* lines 562-565: bytes.empty()
Decrypt_CheckEmpty ==
    /\ pc = "start"
    /\ IF BytesEmpty(bytes) THEN Throw("empty file")
       ELSE pc' = "open" /\ result' = result
    /\ UNCHANGED <<bytes, returned, storage_opened, encrypted_package,
                   encryption_info, hdr, std, agile, reads, calls>>

\* lines 567-573: POLE::Storage storage(...); storage.open()
Decrypt_OpenStorage ==
    /\ pc = "open"
    /\ storage_opened' = TRUE
    /\ IF ~bytes.ole THEN Throw("not an ole compound file")
       ELSE pc' = "read_streams" /\ result' = result
    /\ UNCHANGED <<bytes, returned, encrypted_package, encryption_info, hdr,
                   std, agile, reads, calls>>

\* lines 575-576: the two streams
Decrypt_ReadStreams ==
    /\ pc = "read_streams"
    /\ encrypted_package' = [size |-> file(bytes.package)]
    /\ encryption_info' = [size |-> file(bytes.info), erased |-> 0]
    /\ pc' = "read_version"
    /\ UNCHANGED <<bytes, result, returned, storage_opened, hdr, std, agile,
                   reads, calls>>

\* the three accesses of lines 580-582 and the erase of line 585
VersionReads(len) ==
    <<Access("encryption_info", "version_major", 0, SizeofU16, len),
      Access("encryption_info", "version_minor", SizeofU16, SizeofU16, len),
      Access("encryption_info", "encryption_flags", 2 * SizeofU16, SizeofU32, len),
      Access("encryption_info", "erase", 0, 2 * SizeofU16 + SizeofU32, len)>>

\* line 585: encryption_info.erase(begin, begin + index): what is left of a
\* buffer of len bytes
EraseHeader(len, index) ==
    [size |-> Max(0, len - index), erased |-> index]

\* lines 578-585
Decrypt_ReadVersion ==
    /\ pc = "read_version"
    /\ reads' = reads \o VersionReads(encryption_info.size)
    /\ \/ /\ \E major \in VersionMajors, minor \in VersionMinors, flags \in FlagWords :
                hdr' = [version_major |-> major, version_minor |-> minor,
                        encryption_flags |-> flags]
          /\ encryption_info' =
                EraseHeader(encryption_info.size, 2 * SizeofU16 + SizeofU32)
          /\ pc' = "route"
          /\ UNCHANGED result
       \/ /\ ~InBounds(0, 2 * SizeofU16 + SizeofU32, encryption_info.size)
          /\ Fault
          /\ UNCHANGED <<hdr, encryption_info>>
    /\ UNCHANGED <<bytes, returned, storage_opened, encrypted_package, std,
                   agile, calls>>

\* line 588 with the minor version left out
IsAgileVersion_MajorOnly(major, minor) == major = 4

\* line 588
IsAgileVersion(major, minor) == major = 4 /\ minor = 4

\* line 590
AgileFlagsOk(flags) == flags = 64

\* line 599
StandardVersionOk(major, minor) == minor = 2 /\ major \in {2, 3, 4}

\* line 604: Reserved1 and Reserved2
ReservedFlagsClear(flags) == ~Bit(flags, 0) /\ ~Bit(flags, 1)

\* lines 609-610 with the fExternal test left out
CryptoApiNotExternal_NoExternalTest(flags) == Bit(flags, 2)

\* lines 609-610: fCryptoAPI set, fExternal clear
CryptoApiNotExternal(flags) == Bit(flags, 2) /\ ~Bit(flags, 4)

\* line 615: fAES
AesFlagSet(flags) == Bit(flags, 5)

\* lines 587-620
Decrypt_Route ==
    /\ pc = "route"
    /\ IF IsAgileVersion(hdr.version_major, hdr.version_minor)
       THEN IF ~AgileFlagsOk(hdr.encryption_flags)
            THEN Throw("bad header")
            ELSE pc' = "agile_key_data" /\ result' = result
       ELSE IF ~StandardVersionOk(hdr.version_major, hdr.version_minor)
            THEN Throw("unsupported encryption version")
       ELSE IF ~ReservedFlagsClear(hdr.encryption_flags)
            THEN Throw("bad header")
       ELSE IF ~CryptoApiNotExternal(hdr.encryption_flags)
            THEN Throw("extensible encryption is not supported")
       ELSE IF ~AesFlagSet(hdr.encryption_flags)
            THEN Throw("not an OOXML document")
       ELSE pc' = "std_header_length" /\ result' = result
    /\ UNCHANGED <<bytes, returned, storage_opened, encrypted_package,
                   encryption_info, hdr, std, agile, reads, calls>>

----------------------------------------------------------------------------
(* decrypt_xlsx_standard: the header *)

\* the values a 32-bit field is given when it is read; each set holds the
\* values the code accepts and some it does not
\* 0, 0x660E, 0x660F, 0x6610 (AES 128/192/256), 0x6801 (RC4), 0x6611
AlgIds == {0, 26126, 26127, 26128, 26625, 26129}
\* 0, 0x8004 (SHA-1), 0x8003 (MD5)
AlgIdHashes == {0, 32772, 32771}
\* 128 and 256 bit keys, and a length no AES key has
KeyBitsValues == {128, 256, 512}
\* 0, 0x18 (PROV_RSA_AES), 1 (PROV_RSA_FULL)
ProviderTypes == {0, 24, 1}
Reserved2Values == {0, 1}
SaltSizes == {16, 1024}
VerifierHashSizes == {20, 32}

\* lines 214-215: the two provider names the code accepts
KnownProviderNames ==
    {"Microsoft Enhanced RSA and AES Cryptographic Provider (Prototype)",
     "Microsoft Enhanced RSA and AES Cryptographic Provider"}

ProviderNames ==
    KnownProviderNames \cup {"Microsoft Enhanced DSS and AES Cryptographic Provider"}

\* the bytes of a name in UTF-16 with its trailing null
Utf16Size(name) == SizeofU16 * (Len(name) + 1)

\* header lengths: 32 bytes of fixed fields and a provider name; 32 (an
\* empty name) and 8 (less than the fixed fields)
HeaderLengths == {32 + Utf16Size(n) : n \in ProviderNames} \cup {32, 8}

\* lines 172-175: an unchecked read_int<std::uint32_t> of a field the code
\* does not look at
StdSkipField(at, field, next) ==
    /\ pc = at
    /\ reads' = Append(reads, Access("encryption_info", field, std.offset,
                                     SizeofU32, encryption_info.size))
    /\ \/ /\ std' = [std EXCEPT !.offset = @ + SizeofU32]
          /\ pc' = next
          /\ UNCHANGED result
       \/ /\ ~InBounds(std.offset, SizeofU32, encryption_info.size)
          /\ Fault
          /\ UNCHANGED std
    /\ UNCHANGED <<bytes, returned, storage_opened, encrypted_package,
                   encryption_info, hdr, agile, calls>>

\* lines 163-173: the call (the dispatcher's locals are not the callee's)
\* and the first field
Std_HeaderLength ==
    /\ pc = "std_header_length"
    /\ hdr' = HdrInit
    /\ reads' = Append(reads, Access("encryption_info", "header_length", 0,
                                     SizeofU32, encryption_info.size))
    /\ \/ /\ \E v \in HeaderLengths :
                std' = [std EXCEPT !.header_length = v, !.offset = SizeofU32,
                                   !.index_at_start = SizeofU32]
          /\ pc' = "std_skip_flags"
          /\ UNCHANGED result
       \/ /\ ~InBounds(0, SizeofU32, encryption_info.size)
          /\ Fault
          /\ UNCHANGED std
    /\ UNCHANGED <<bytes, returned, storage_opened, encrypted_package,
                   encryption_info, agile, calls>>

\* line 174
Std_SkipFlags == StdSkipField("std_skip_flags", "skip_flags", "std_size_extra")

\* line 175
Std_SizeExtra == StdSkipField("std_size_extra", "size_extra", "std_alg_id")

\* line 178 as a range test, which lets 0x6611 through
IsAesAlgId_Range(alg_id) == alg_id = 0 \/ (alg_id >= 26126 /\ alg_id <= 26129)

\* line 178
IsAesAlgId(alg_id) == alg_id \in {0, 26126, 26127, 26128}

\* lines 176-185
Std_AlgId ==
    /\ pc = "std_alg_id"
    /\ reads' = Append(reads, Access("encryption_info", "alg_id", std.offset,
                                     SizeofU32, encryption_info.size))
    /\ \/ \E v \in AlgIds :
            IF IsAesAlgId(v)
            THEN /\ std' = [std EXCEPT !.alg_id = v, !.cipher = "aes",
                                       !.offset = @ + SizeofU32]
                 /\ pc' = "std_alg_id_hash"
                 /\ UNCHANGED result
            ELSE /\ std' = [std EXCEPT !.alg_id = v, !.offset = @ + SizeofU32]
                 /\ Throw("invalid cipher algorithm")
       \/ /\ ~InBounds(std.offset, SizeofU32, encryption_info.size)
          /\ Fault
          /\ UNCHANGED std
    /\ UNCHANGED <<bytes, returned, storage_opened, encrypted_package,
                   encryption_info, hdr, agile, calls>>

\* line 188: alg_id_hash != 0x00008004 && alg_id_hash == 0
HashIdRejected(alg_id_hash) == alg_id_hash # 32772 /\ alg_id_hash = 0

\* lines 187-191
Std_AlgIdHash ==
    /\ pc = "std_alg_id_hash"
    /\ reads' = Append(reads, Access("encryption_info", "alg_id_hash", std.offset,
                                     SizeofU32, encryption_info.size))
    /\ \/ \E v \in AlgIdHashes :
            \* alg_id is not used after line 185
            /\ std' = [std EXCEPT !.alg_id = 0, !.alg_id_hash = v,
                                  !.offset = @ + SizeofU32]
            /\ IF HashIdRejected(v)
               THEN Throw("invalid hash algorithm")
               ELSE pc' = "std_key_bits" /\ UNCHANGED result
       \/ /\ ~InBounds(std.offset, SizeofU32, encryption_info.size)
          /\ Fault
          /\ UNCHANGED std
    /\ UNCHANGED <<bytes, returned, storage_opened, encrypted_package,
                   encryption_info, hdr, agile, calls>>

\* lines 193-194
Std_KeyBits ==
    /\ pc = "std_key_bits"
    /\ reads' = Append(reads, Access("encryption_info", "key_bits", std.offset,
                                     SizeofU32, encryption_info.size))
    /\ \/ /\ \E v \in KeyBitsValues :
                \* alg_id_hash is not used after line 191
                std' = [std EXCEPT !.alg_id_hash = 0, !.key_bits = v,
                                   !.key_bytes = v \div 8,
                                   !.offset = @ + SizeofU32]
          /\ pc' = "std_provider_type"
          /\ UNCHANGED result
       \/ /\ ~InBounds(std.offset, SizeofU32, encryption_info.size)
          /\ Fault
          /\ UNCHANGED std
    /\ UNCHANGED <<bytes, returned, storage_opened, encrypted_package,
                   encryption_info, hdr, agile, calls>>

\* line 197
ProviderTypeOk(provider_type) == provider_type = 0 \/ provider_type = 24

\* lines 196-200
Std_ProviderType ==
    /\ pc = "std_provider_type"
    /\ reads' = Append(reads, Access("encryption_info", "provider_type", std.offset,
                                     SizeofU32, encryption_info.size))
    /\ \/ /\ std' = [std EXCEPT !.offset = @ + SizeofU32]
          /\ \E v \in ProviderTypes :
                IF ProviderTypeOk(v)
                THEN pc' = "std_reserved1" /\ UNCHANGED result
                ELSE Throw("invalid provider type")
       \/ /\ ~InBounds(std.offset, SizeofU32, encryption_info.size)
          /\ Fault
          /\ UNCHANGED std
    /\ UNCHANGED <<bytes, returned, storage_opened, encrypted_package,
                   encryption_info, hdr, agile, calls>>

\* line 202
Std_Reserved1 == StdSkipField("std_reserved1", "reserved1", "std_reserved2")

\* lines 203-206
Std_Reserved2 ==
    /\ pc = "std_reserved2"
    /\ reads' = Append(reads, Access("encryption_info", "reserved2", std.offset,
                                     SizeofU32, encryption_info.size))
    /\ \/ /\ std' = [std EXCEPT !.offset = @ + SizeofU32]
          /\ \E v \in Reserved2Values :
                IF v # 0
                THEN Throw("invalid header")
                ELSE pc' = "std_csp_name" /\ UNCHANGED result
       \/ /\ ~InBounds(std.offset, SizeofU32, encryption_info.size)
          /\ Fault
          /\ UNCHANGED std
    /\ UNCHANGED <<bytes, returned, storage_opened, encrypted_package,
                   encryption_info, hdr, agile, calls>>

\* line 208: header_length - (offset - index_at_start), in std::size_t
CspNameLength(header_length, offset, index_at_start) ==
    (header_length - (offset - index_at_start)) % SizeTModulus

\* lines 209-213: the slice of the name, and the trailing null that
\* csp_name_wide.end() - 1 leaves out of a vector of n bytes
CspNameReads(offset, n, len) ==
    <<Access("encryption_info", "csp_name", offset, n, len),
      Access("csp_name_wide", "trailing_null", n - SizeofU16, SizeofU16, n)>>

\* lines 208-219
Std_CspName ==
    /\ pc = "std_csp_name"
    /\ LET n == CspNameLength(std.header_length, std.offset, std.index_at_start)
           rs == CspNameReads(std.offset, n, encryption_info.size)
       IN /\ reads' = reads \o rs
          /\ \/ \* header_length and index_at_start are not used after line 208
                /\ std' = [std EXCEPT !.csp_name_length = n, !.offset = @ + n,
                                      !.header_length = 0, !.index_at_start = 0]
                /\ \E name \in ProviderNames :
                      \* inside the buffer the name is as long as the header says
                      /\ (AccessInBounds(rs[1]) /\ AccessInBounds(rs[2]))
                            => Utf16Size(name) = n
                      /\ IF name \notin KnownProviderNames
                         THEN Throw("invalid cryptographic provider")
                         ELSE pc' = "std_salt" /\ UNCHANGED result
             \/ /\ ~(AccessInBounds(rs[1]) /\ AccessInBounds(rs[2]))
                /\ \/ Fault
                   \* an iterator range that ends before it starts
                   \/ n > VectorMaxSize /\ Throw("std::length_error")
                   \/ n < SizeofU16 /\ Throw("std::length_error")
                /\ UNCHANGED std
    /\ UNCHANGED <<bytes, returned, storage_opened, encrypted_package,
                   encryption_info, hdr, agile, calls>>

\* lines 221-224 and 231-234: a 32-bit size and then that many bytes
StdSizedSlice(at, field, sizes, next) ==
    /\ pc = at
    /\ \E n \in sizes :
         LET rs == <<Access("encryption_info", field \o "_size", std.offset,
                            SizeofU32, encryption_info.size),
                     Access("encryption_info", field, std.offset + SizeofU32,
                            n, encryption_info.size)>>
         IN /\ reads' = reads \o rs
            /\ \/ /\ std' = [std EXCEPT !.offset = @ + SizeofU32 + n]
                  /\ pc' = next
                  /\ UNCHANGED result
               \/ /\ ~(AccessInBounds(rs[1]) /\ AccessInBounds(rs[2]))
                  /\ Fault
                  /\ UNCHANGED std
    /\ UNCHANGED <<bytes, returned, storage_opened, encrypted_package,
                   encryption_info, hdr, agile, calls>>

\* lines 221-224
Std_Salt == StdSizedSlice("std_salt", "salt", SaltSizes, "std_verifier_input")

\* line 226
verifier_size == 16

\* lines 226-229
Std_VerifierInput ==
    /\ pc = "std_verifier_input"
    /\ reads' = Append(reads, Access("encryption_info", "verifier_hash_input",
                                     std.offset, verifier_size, encryption_info.size))
    /\ \/ /\ std' = [std EXCEPT !.offset = @ + verifier_size]
          /\ pc' = "std_verifier_hash"
          /\ UNCHANGED result
       \/ /\ ~InBounds(std.offset, verifier_size, encryption_info.size)
          /\ Fault
          /\ UNCHANGED std
    /\ UNCHANGED <<bytes, returned, storage_opened, encrypted_package,
                   encryption_info, hdr, agile, calls>>

\* lines 231-234
Std_VerifierHash ==
    StdSizedSlice("std_verifier_hash", "verifier_hash_value", VerifierHashSizes, "std_h_0")

----------------------------------------------------------------------------
(* decrypt_xlsx_standard: key generation and the package *)

Call(fn, what, n) == [fn |-> fn, what |-> what, n |-> n]

\* the places in the log of the calls made for the things named
CallsOf(whats) == {i \in 1..Len(calls) : calls[i].what \in whats}

\* the length prefixes an EncryptedPackage of n bytes of ciphertext is given:
\* shorter than, equal to and longer than what is decrypted, and one no
\* vector can hold
PrefixValues(n) ==
    {v \in {0, n - 1, n, n + 16} : v >= 0} \cup {VectorMaxSize + 1}

\* lines 238-245: H_0 = H(salt + password)
Std_H0 ==
    /\ pc = "std_h_0"
    /\ calls' = Append(calls, Call("hash", "h_0", 1))
    /\ pc' = "std_spin"
    /\ UNCHANGED <<bytes, result, returned, storage_opened, encrypted_package,
                   encryption_info, hdr, std, agile, reads>>

\* lines 247-256: H_n = H(iterator + H_n-1), spin_count times
Std_SpinLoop ==
    /\ pc = "std_spin"
    /\ calls' = Append(calls, Call("hash", "h_n", standard_spin_count))
    /\ pc' = "std_derive_key"
    /\ UNCHANGED <<bytes, result, returned, storage_opened, encrypted_package,
                   encryption_info, hdr, std, agile, reads>>

\* lines 258-285: H_final, X1, X2, and key_bytes bytes of X3 = X1 + X2
Std_DeriveKey ==
    /\ pc = "std_derive_key"
    /\ calls' = calls \o <<Call("hash", "h_final", 1), Call("hash", "X1", 1),
                           Call("hash", "X2", 1)>>
    /\ reads' = Append(reads, Access("X3", "key_derived", 0, std.key_bytes,
                                     2 * HashSize("sha1")))
    /\ \/ /\ std' = [std EXCEPT !.key_derived =
                                   KeyDerived(std.key_bytes, 2 * HashSize("sha1"))]
          /\ pc' = "std_package"
          /\ UNCHANGED result
       \/ /\ ~InBounds(0, std.key_bytes, 2 * HashSize("sha1"))
          /\ Fault
          /\ UNCHANGED std
    /\ UNCHANGED <<bytes, returned, storage_opened, encrypted_package,
                   encryption_info, hdr, agile>>

\* the two accesses of lines 290 and 294 to a package of len bytes
PackageReads(len) ==
    <<Access("encrypted_package", "decrypted_size", 0, SizeofU64, len),
      Access("encrypted_package", "ciphertext", SizeofU64, len - SizeofU64, len)>>

\* aes_ecb_decrypt, aes_cbc_decrypt: as many bytes out as in
AesOutputSize(n) == n

\* line 296: decrypted.resize(decrypted_size)
StdResult(decrypted, decrypted_size) == Resize(decrypted, decrypted_size)

\* lines 289-298
Std_DecryptPackage ==
    /\ pc = "std_package"
    /\ reads' = reads \o PackageReads(encrypted_package.size)
    /\ IF ~InBounds(0, SizeofU64, encrypted_package.size)
       THEN \* begin() + 8 is past end(): no vector of that range exists
            /\ Fault \/ Throw("std::length_error")
            /\ UNCHANGED <<std, calls, returned>>
       ELSE LET n == AesOutputSize(encrypted_package.size - SizeofU64)
            IN /\ calls' = Append(calls, Call("aes_ecb_decrypt", "package", n))
               /\ \E v \in PrefixValues(n) :
                    /\ std' = [std EXCEPT !.decrypted_size = v]
                    /\ IF v > VectorMaxSize
                       THEN Throw("std::length_error") /\ UNCHANGED returned
                       ELSE Return(StdResult(n, v))
    /\ UNCHANGED <<bytes, storage_opened, encrypted_package, encryption_info,
                   hdr, agile>>

----------------------------------------------------------------------------
(* decrypt_xlsx_agile: the header *)

\* the children of keyEncryptor: the password encrypted key with each hash
\* name, and the certificate encrypted key
PasswordChildren == {"p:encryptedKey SHA1", "p:encryptedKey SHA512", "p:encryptedKey SHA256"}
ChildKinds == PasswordChildren \cup {"c:encryptedKey"}

\* line 411
IsPasswordKey(child) == child \in PasswordChildren

\* lines 422-435
HashOfChild(child) ==
    IF child = "p:encryptedKey SHA512" THEN "sha512"
    ELSE IF child = "p:encryptedKey SHA1" THEN "sha1"
    ELSE "unsupported"

\* line 477: std::uint32_t &iterator. The loop is walked turn by turn, so
\* the width of the iterator is scaled from 32 bits to 2: the iterator wraps
\* to 0 after IteratorModulus - 1 as the 32-bit one does after 2^32 - 1, and
\* the size_t of spin_count stays wider, at SizeTModulus
IteratorModulus == 2^2

\* line 414: spinCount is read as a size_t: no turn, fewer turns than the
\* iterator has values, one turn for each value of the iterator, and more
SpinCounts == {0, 2, IteratorModulus, IteratorModulus + 1}

\* a step of the pull parser over the XML of the stream: the event the code
\* expects, or xml::parsing; nothing of an empty document parses, and after
\* an access out of bounds the buffer the parser is given is not the stream
XmlStep(ok) ==
    \/ /\ encryption_info.size > 0 \/ UbOccurred
       /\ ok
    \/ Throw("xml::parsing")
    \/ UbOccurred /\ Fault

\* lines 369-395: the call, the parser, encryption and keyData
Agile_KeyData ==
    /\ pc = "agile_key_data"
    /\ hdr' = HdrInit
    /\ XmlStep(pc' = "agile_data_integrity" /\ UNCHANGED result)
    /\ UNCHANGED <<bytes, returned, storage_opened, encrypted_package,
                   encryption_info, std, agile, reads, calls>>

\* lines 397-400
Agile_DataIntegrity ==
    /\ pc = "agile_data_integrity"
    /\ XmlStep(pc' = "agile_key_encryptors" /\ UNCHANGED result)
    /\ UNCHANGED <<bytes, returned, storage_opened, encrypted_package,
                   encryption_info, hdr, std, agile, reads, calls>>

\* lines 402-405
Agile_KeyEncryptors ==
    /\ pc = "agile_key_encryptors"
    /\ XmlStep(pc' = "agile_children" /\ UNCHANGED result)
    /\ agile' = [agile EXCEPT !.any_password_key = FALSE]
    /\ UNCHANGED <<bytes, returned, storage_opened, encrypted_package,
                   encryption_info, hdr, std, reads, calls>>

\* lines 407-450: one turn of the loop, for a child of keyEncryptor
Agile_Child ==
    /\ pc = "agile_children"
    /\ Len(agile.children) < MaxChildren
    /\ \E child \in ChildKinds :
         IF IsPasswordKey(child)
         THEN \E spin \in SpinCounts :
                /\ agile' = [agile EXCEPT !.any_password_key = TRUE,
                                          !.children = Append(@, child),
                                          !.spin_count = spin,
                                          !.hash = HashOfChild(child)]
                /\ IF HashOfChild(child) = "unsupported"
                   THEN Throw("unsupported: hash")
                   ELSE XmlStep(pc' = "agile_children" /\ UNCHANGED result)
         ELSE /\ agile' = [agile EXCEPT !.children = Append(@, child)]
              /\ Throw("unsupported: other encryption key types not supported")
    /\ UNCHANGED <<bytes, returned, storage_opened, encrypted_package,
                   encryption_info, hdr, std, reads, calls>>

\* lines 407 and 452-460: the end of keyEncryptor
Agile_EndChildren ==
    /\ pc = "agile_children"
    /\ IF ~agile.any_password_key
       THEN Throw("no password key in keyEncryptors")
       ELSE XmlStep(pc' = "agile_h_0" /\ UNCHANGED result)
    /\ UNCHANGED <<bytes, returned, storage_opened, encrypted_package,
                   encryption_info, hdr, std, agile, reads, calls>>

----------------------------------------------------------------------------
(* decrypt_xlsx_agile: key generation, the verifier and the package *)

\* line 472: H_0 = H(salt + password)
h_0 == Digest("salt + password", <<>>)

\* line 482: hash(iterator_plus_h_n), of the iterator and the digest after it
HashRound(iterator, h_prev) == Digest(h_prev.seed, Append(h_prev.iterators, iterator))

\* line 480: ++iterator, on a std::uint32_t
IncrementIterator(iterator) == (iterator + 1) % IteratorModulus

\* line 480: iterator < spin_count, the iterator converted to std::size_t
SpinContinues(iterator, spin_count) == iterator < spin_count

\* the hash calls the loop has made
Rounds == Cardinality(CallsOf({"h_n"}))

\* line 472 moved into the loop of lines 407-450: h_0 is hashed as soon as a
\* password key has been read, the rest of keyEncryptors still to be parsed
Agile_H0_InsideKeyEncryptors ==
    /\ pc = "agile_children"
    /\ agile.any_password_key
    /\ calls = <<>>
    /\ calls' = Append(calls, Call("hash", "h_0", 1))
    /\ agile' = [agile EXCEPT !.iterator = 0, !.iterator_plus_h_n = h_0,
                              !.h_n = EmptyVector]
    /\ UNCHANGED <<bytes, pc, result, returned, storage_opened,
                   encrypted_package, encryption_info, hdr, std, reads>>

\* lines 464-480: h_0, the buffer of the iterator and h_0, the empty h_n
\* and iterator = 0
Agile_H0 ==
    /\ pc = "agile_h_0"
    /\ calls' = Append(calls, Call("hash", "h_0", 1))
    /\ agile' = [agile EXCEPT !.iterator = 0, !.iterator_plus_h_n = h_0,
                              !.h_n = EmptyVector]
    /\ pc' = "agile_spin"
    /\ UNCHANGED <<bytes, result, returned, storage_opened, encrypted_package,
                   encryption_info, hdr, std, reads>>

\* lines 480-484: one turn of the loop
Agile_SpinLoop ==
    /\ pc = "agile_spin"
    /\ SpinContinues(agile.iterator, agile.spin_count)
    /\ Rounds < MaxRounds
    /\ calls' = Append(calls, Call("hash", "h_n", 1))
    /\ LET h == HashRound(agile.iterator, agile.iterator_plus_h_n)
       IN agile' = [agile EXCEPT !.h_n = h, !.iterator_plus_h_n = h,
                                 !.iterator = IncrementIterator(@)]
    /\ UNCHANGED <<bytes, pc, result, returned, storage_opened,
                   encrypted_package, encryption_info, hdr, std, reads>>

\* line 480: the end of the loop
Agile_SpinLoopEnd ==
    /\ pc = "agile_spin"
    /\ ~SpinContinues(agile.iterator, agile.spin_count)
    /\ pc' = "agile_verify"
    /\ UNCHANGED <<bytes, result, returned, storage_opened, encrypted_package,
                   encryption_info, hdr, std, agile, reads, calls>>

\* lines 488-502: calculate_block
CalculateBlockCalls(what) ==
    <<Call("hash", what \o "_key", 1), Call("aes_cbc_decrypt", what, 1)>>

\* the digests the verifier yields
Digests == {"d1", "d2"}

\* lines 513-516 comparing the sizes only, which line 511 has made equal
VerifierMismatch_SizesOnly(calculated, expected) == FALSE

\* lines 513-516
VerifierMismatch(calculated, expected) == calculated # expected

\* lines 504-519
Agile_Verify ==
    /\ pc = "agile_verify"
    /\ calls' = calls \o CalculateBlockCalls("verifier_hash_input")
                      \o <<Call("hash", "calculated_verifier", 1)>>
                      \o CalculateBlockCalls("verifier_hash_value")
    /\ \E expected \in Digests :
         /\ agile' = [agile EXCEPT !.calculated_verifier = "d1",
                                   !.expected_verifier = expected]
         /\ IF VerifierMismatch("d1", expected)
            THEN Throw("bad password")
            ELSE pc' = "agile_package_key" /\ UNCHANGED result
    /\ UNCHANGED <<bytes, returned, storage_opened, encrypted_package,
                   encryption_info, hdr, std, reads>>

\* lines 521-523
Agile_PackageKey ==
    /\ pc = "agile_package_key"
    /\ calls' = calls \o CalculateBlockCalls("encrypted_key_value")
    /\ pc' = "agile_total_size"
    /\ UNCHANGED <<bytes, result, returned, storage_opened, encrypted_package,
                   encryption_info, hdr, std, agile, reads>>

\* line 392: the bytes decode_base64 makes of the saltValue of keyData
KeyDataSaltValues == {16}

\* line 385: the saltSize of keyData, a size_t: less than, equal to and more
\* than the length of the decoded salt, and more than a vector can hold
KeyDataSaltSizes == {8, 16, 32, VectorMaxSize}

\* lines 526-529 and 550: the salt value resized to salt_size +
\* sizeof(std::uint32_t) bytes, filled with zeros, with the segment counter
\* in its last four bytes: the bytes of the salt it keeps, the zeros
\* between them and the counter, and the counter
SaltWithBlockKey(salt_value, salt_size, segment) ==
    [salt |-> Min(salt_value, salt_size),
     zeros |-> Resize(salt_value, salt_size).filler,
     segment |-> segment]

\* lines 525-536: the salt and its size, which keyData gave, total_size, the
\* reserve and the start of the loop
Agile_TotalSize ==
    /\ pc = "agile_total_size"
    /\ \E salt_value \in KeyDataSaltValues, salt_size \in KeyDataSaltSizes :
         IF salt_size + SizeofU32 > VectorMaxSize
         THEN \* line 527: resize asks for more than max_size()
              /\ Throw("std::length_error")
              /\ agile' = [agile EXCEPT !.salt_value = salt_value,
                                        !.salt_size = salt_size]
              /\ UNCHANGED reads
         ELSE /\ reads' = Append(reads, Access("encrypted_package", "total_size",
                                               0, SizeofU64, encrypted_package.size))
              /\ IF ~InBounds(0, SizeofU64, encrypted_package.size)
                 THEN \* reserve(size() - 8) asks for more than max_size()
                      /\ Fault \/ Throw("std::length_error")
                      /\ UNCHANGED agile
                 ELSE /\ \E v \in PrefixValues(encrypted_package.size - SizeofU64) :
                           agile' = [agile EXCEPT !.salt_value = salt_value,
                                                  !.salt_size = salt_size,
                                                  !.total_size = v,
                                                  !.i = SizeofU64,
                                                  !.segment = 0,
                                                  !.decrypted_package = 0]
                      /\ pc' = "agile_segments"
                      /\ UNCHANGED result
    /\ UNCHANGED <<bytes, returned, storage_opened, encrypted_package,
                   encryption_info, hdr, std, calls>>

\* line 542
current_segment_length(size, i) == Min(ole_segment_length, size - i)

\* line 536 with <= for <
MoreSegments_Inclusive(i, size) == i <= size

\* line 536: i < encrypted_package.size()
MoreSegments(i, size) == i < size

\* lines 536-551: one turn of the loop
Agile_Segment ==
    /\ pc = "agile_segments"
    /\ MoreSegments(agile.i, encrypted_package.size)
    /\ LET n == current_segment_length(encrypted_package.size, agile.i)
       IN /\ calls' = calls \o <<Call("hash", "iv", 1),
                                 Call("aes_cbc_decrypt", "segment", n)>>
          /\ reads' = Append(reads, Access("encrypted_package", "segment",
                                           agile.i, n, encrypted_package.size))
          /\ agile' = [agile EXCEPT
                         !.segments = Append(@,
                             [offset |-> agile.i, length |-> n,
                              counter |-> agile.segment,
                              iv_input |-> SaltWithBlockKey(agile.salt_value,
                                              agile.salt_size, agile.segment)]),
                         !.decrypted_package = @ + n,
                         !.segment = @ + 1,
                         !.i = @ + ole_segment_length]
    /\ UNCHANGED <<bytes, pc, result, returned, storage_opened,
                   encrypted_package, encryption_info, hdr, std>>

\* line 553: decrypted_package.resize(total_size)
AgileResult(decrypted, total_size) == Resize(decrypted, total_size)

\* lines 536 and 553-555: the end of the loop
Agile_Finish ==
    /\ pc = "agile_segments"
    /\ ~MoreSegments(agile.i, encrypted_package.size)
    /\ IF agile.total_size > VectorMaxSize
       THEN Throw("std::length_error") /\ UNCHANGED returned
       ELSE Return(AgileResult(agile.decrypted_package, agile.total_size))
    /\ UNCHANGED <<bytes, storage_opened, encrypted_package, encryption_info,
                   hdr, std, agile, reads, calls>>

----------------------------------------------------------------------------
(* The claims *)

AesIds == {0, 26126, 26127, 26128}

\* the dispatcher has decided and the decoder it chose has not started
Routed == hdr # HdrInit /\ pc # "route"

\* the agile decoder has read the package's length prefix
AgilePackageStarted == agile.i >= SizeofU64

PackageWork == {"encrypted_key_value_key", "encrypted_key_value", "iv", "segment"}

Ceil(n, d) == (n + d - 1) \div d

\* C1: every read of a field or slice of the EncryptionInfo buffer lies
\* inside the buffer, and a buffer too short for a field ends the call with
\* the corrupt-header error
C1_ReadsInsideInfoBuffer ==
    /\ \A i \in 1..Len(reads) :
         reads[i].buf = "encryption_info" => AccessInBounds(reads[i])
    /\ (pc = "done" /\ storage_opened /\ bytes.ole /\ file(bytes.info) < SizeofU64)
          => result = "bad header"

\* C2: in the agile scheme a verifier mismatch ends the call with the
\* bad-password error, with no package key derived and no segment decrypted;
\* the package key and the segments come only after a comparison that found
\* the verifiers equal
C2_MismatchStopsBeforePackage ==
    /\ (CallsOf({"verifier_hash_value"}) # {}
        /\ agile.calculated_verifier # agile.expected_verifier)
          => /\ pc = "done"
             /\ result = "bad password"
             /\ CallsOf(PackageWork) = {}
    /\ \A i \in CallsOf(PackageWork) :
          /\ \E j \in CallsOf({"verifier_hash_value"}) : j < i
          /\ agile.calculated_verifier = agile.expected_verifier

C2_Witness ==
    /\ pc = "done"
    /\ result = "bad password"
    /\ agile.calculated_verifier # agile.expected_verifier
    /\ CallsOf({"calculated_verifier"}) # {}

\* C3: a buffer is returned only when the length prefix does not exceed the
\* number of decrypted bytes, so a returned buffer holds no filler bytes
C3_NoFillerReturned ==
    result = "ok" => returned.filler = 0

\* C4: the standard decoder goes on past the hash id only when it is 0x8004;
\* every other non-zero id ends the call with the unsupported-hash error
C4_OnlySha1Accepted ==
    /\ pc = "std_key_bits" => std.alg_id_hash = 32772
    /\ std.alg_id_hash \notin {0, 32772}
          => pc = "done" /\ result = "invalid hash algorithm"

\* C5: a zero-length container ends the call with the empty-input error
\* before the storage is opened, a stream read or a field parsed
C5_EmptyInputFailsFirst ==
    bytes.size = 0 =>
        /\ pc \in {"start", "done"}
        /\ pc = "done" => result = "empty file"
        /\ ~storage_opened
        /\ reads = <<>>
        /\ calls = <<>>

C5_Witness ==
    bytes.size = 0 /\ pc = "done" /\ result = "empty file" /\ ~storage_opened

\* C6: the agile decoder is chosen exactly for version 4.4 with the flag
\* word 0x40; version 4.4 with another flag word ends the call with the
\* corrupt-header error and no decoder; the decoder is given the info stream
\* without its first 8 bytes
C6_AgileRouting ==
    /\ Routed =>
         /\ pc = "agile_key_data"
               <=> (hdr.version_major = 4 /\ hdr.version_minor = 4
                    /\ hdr.encryption_flags = 64)
         /\ (hdr.version_major = 4 /\ hdr.version_minor = 4
             /\ hdr.encryption_flags # 64)
               => pc = "done" /\ result = "bad header"
    /\ (pc \in {"agile_key_data", "std_header_length"}
        /\ file(bytes.info) >= SizeofU64)
          => /\ encryption_info.erased = 8
             /\ encryption_info.size = file(bytes.info) - 8

C6_Witness ==
    /\ pc = "agile_key_data"
    /\ hdr.version_major = 4 /\ hdr.version_minor = 4
    /\ hdr.encryption_flags = 64
    /\ file(bytes.info) > SizeofU64
    /\ encryption_info.size = file(bytes.info) - 8

AgileHeaderAccepted ==
    pc \in {"agile_h_0", "agile_spin", "agile_verify", "agile_package_key",
            "agile_total_size", "agile_segments"}

\* C8: a header is accepted only with exactly one password encrypted-key
\* element among the children of keyEncryptor
C8_ExactlyOnePasswordKey ==
    AgileHeaderAccepted =>
        Cardinality({i \in 1..Len(agile.children) :
                        agile.children[i] \in PasswordChildren}) = 1

\* what lines 407-455 enforce instead: an accepted header holds at least one
\* child and every child is a password encrypted-key element; with no such
\* element the call ends with an error, and a child of another kind ends it
\* as unsupported
AtLeastOnePasswordKey ==
    /\ AgileHeaderAccepted =>
         /\ Len(agile.children) >= 1
         /\ \A i \in 1..Len(agile.children) :
               agile.children[i] \in PasswordChildren
    /\ (\E i \in 1..Len(agile.children) :
            agile.children[i] \notin PasswordChildren)
          => /\ pc = "done"
             /\ result = "unsupported: other encryption key types not supported"
    /\ (pc = "done" /\ result = "no password key in keyEncryptors")
          => agile.children = <<>>

\* a header with two password encrypted-key elements is accepted
TwoPasswordKeysAccepted ==
    /\ AgileHeaderAccepted
    /\ Len(agile.children) = 2
    /\ \A i \in 1..2 : agile.children[i] \in PasswordChildren

\* C9: an agile package of 8 + n bytes is decrypted in ceil(n/4096)
\* segments, of min(4096, remaining) bytes at the offsets 8, 8 + 4096, ...,
\* none of them empty; the appended bytes total n, and the returned buffer
\* has the length the prefix gives
C9_SegmentsCoverPackage ==
    AgilePackageStarted =>
        LET n == encrypted_package.size - SizeofU64
            segs == agile.segments
        IN /\ \A k \in 1..Len(segs) :
                /\ segs[k].offset = SizeofU64 + (k - 1) * 4096
                /\ segs[k].length = Min(4096, n - (k - 1) * 4096)
                /\ segs[k].length > 0
           /\ Len(segs) <= Ceil(n, 4096)
           /\ pc = "done" =>
                /\ Len(segs) = Ceil(n, 4096)
                /\ agile.decrypted_package = n
                /\ result = "ok" => returned.size = agile.total_size

C9_Witness ==
    /\ AgilePackageStarted
    /\ pc = "done" /\ result = "ok"
    /\ encrypted_package.size = SizeofU64 + 2 * 4096
    /\ Len(agile.segments) = 2
    /\ returned.size = agile.total_size

\* C10: the standard decoder takes the cipher to be AES exactly for the ids
\* 0, 0x660E, 0x660F and 0x6610; any other id ends the call with the
\* unsupported-cipher error, the id being the last field read
C10_CipherIds ==
    /\ pc = "std_alg_id_hash" => (std.cipher = "aes" /\ std.alg_id \in AesIds)
    /\ std.alg_id \notin AesIds =>
          /\ pc = "done"
          /\ result = "invalid cipher algorithm"
          /\ std.cipher # "aes"
          /\ reads[Len(reads)].field = "alg_id"
          /\ calls = <<>>
    /\ (pc = "done" /\ result = "invalid cipher algorithm")
          => std.alg_id \notin AesIds

C10_Witness ==
    /\ pc = "done"
    /\ result = "invalid cipher algorithm"
    /\ std.alg_id = 26625
    /\ reads[Len(reads)].field = "alg_id"

----------------------------------------------------------------------------

\* the agile key-derivation loop has ended
AgileSpinEnded ==
    pc \in {"agile_verify", "agile_package_key", "agile_total_size", "agile_segments"}

\* C11: for every spin count the agile header can carry, the key-derivation
\* loop makes exactly spin_count hash rounds and then ends: it has never
\* made more rounds than spin_count, and when it has ended it has made
\* spin_count of them
C11_ExactlySpinCountRounds ==
    /\ pc = "agile_spin" => Rounds <= agile.spin_count
    /\ AgileSpinEnded => Rounds = agile.spin_count

\* what the loop does with a spin count no 32-bit iterator reaches: it never
\* ends, the iterator being less than spin_count whatever its value
SpinLoopNeverEnds ==
    /\ agile.spin_count >= IteratorModulus => ~AgileSpinEnded
    /\ (pc = "agile_spin" /\ agile.spin_count >= IteratorModulus)
          => /\ SpinContinues(agile.iterator, agile.spin_count)
             /\ agile.iterator = Rounds % IteratorModulus

\* the digest of n rounds on the seed H_0, round k hashing the iterator k
\* and the digest of the round before it
RECURSIVE RoundsOnSeed(_)
RoundsOnSeed(n) == IF n = 0 THEN h_0 ELSE HashRound(n - 1, RoundsOnSeed(n - 1))

\* C12: the digest H_n used after the key-derivation loop is the result of
\* the rounds 0 .. spin_count - 1 on the seed H_0, each on the digest of the
\* round before it; with a spin count of 0 it is the seed H_0 itself
C12_HnIsRoundsOnSeed ==
    AgileSpinEnded => agile.h_n = RoundsOnSeed(agile.spin_count)

\* what holds of H_n: it is the result of the rounds when there was a round,
\* and the vector of no bytes when there was none
HnAfterTheLoop ==
    AgileSpinEnded =>
        agile.h_n = IF agile.spin_count = 0 THEN EmptyVector
                    ELSE RoundsOnSeed(agile.spin_count)

\* C13: at the start of the turn of the agile package loop for the segment
\* at the offset i the counter is (i - 8) / 4096, and what is hashed into
\* the IV of the segment is exactly the decoded salt of keyData followed by
\* the four bytes of the counter, so that the IV depends on nothing but the
\* salt and the index of the segment
C13_SegmentIv ==
    \A k \in 1..Len(agile.segments) :
        LET s == agile.segments[k]
        IN /\ s.counter = (s.offset - SizeofU64) \div 4096
           /\ s.iv_input = [salt |-> agile.salt_value, zeros |-> 0,
                            segment |-> s.counter]

\* what holds of the IV: the counter is the index of the segment, and the
\* salt hashed with it is the decoded salt cut or filled with zeros to the
\* saltSize of keyData, the decoded salt itself when saltSize is its length
SegmentIvWithSaltSize ==
    \A k \in 1..Len(agile.segments) :
        LET s == agile.segments[k]
        IN /\ s.counter = k - 1
           /\ s.counter = (s.offset - SizeofU64) \div 4096
           /\ s.iv_input.segment = s.counter
           /\ s.iv_input.salt + s.iv_input.zeros = agile.salt_size
           /\ agile.salt_size = agile.salt_value
                 => s.iv_input = [salt |-> agile.salt_value, zeros |-> 0,
                                  segment |-> s.counter]

\* the standard scheme has a derived key
StdKeyDerived == pc = "std_package" \/ CallsOf({"package"}) # {}

\* C14: in the standard scheme, for every key length the header can carry,
\* the derived key handed to AES is key_bits / 8 bytes long and is a prefix
\* of the 40 bytes of X1 + X2: the slice that takes it never reaches past
\* the end of them
C14_KeyIsPrefixOfX3 ==
    /\ \A i \in 1..Len(reads) : reads[i].buf = "X3" => AccessInBounds(reads[i])
    /\ StdKeyDerived =>
          /\ std.key_derived.X3 = std.key_bits \div 8
          /\ std.key_derived.X3 <= 2 * HashSize("sha1")
          /\ std.key_derived.past_the_end = 0

\* what holds of the derived key: it is key_bits / 8 bytes long, and a
\* prefix of X1 + X2 when key_bits is 320 or less
KeyOfAtMost320Bits ==
    StdKeyDerived =>
        /\ std.key_derived.X3 + std.key_derived.past_the_end = std.key_bits \div 8
        /\ std.key_bits <= 320 => std.key_derived.past_the_end = 0

\* the errors of the checks of the header: of the dispatcher (lines 588-617),
\* of the standard decoder (lines 168-207) and of the agile decoder (lines
\* 382-460)
HeaderRejections ==
    {"bad header", "unsupported encryption version",
     "extensible encryption is not supported", "not an OOXML document",
     "invalid cipher algorithm", "invalid hash algorithm",
     "invalid provider type", "invalid header",
     "invalid cryptographic provider",
     "xml::parsing", "unsupported: hash",
     "unsupported: other encryption key types not supported",
     "no password key in keyEncryptors"}

\* the steps that come after the checks of the header
AfterHeader ==
    {"std_spin", "std_derive_key", "std_package", "agile_spin", "agile_verify",
     "agile_package_key", "agile_total_size", "agile_segments", "done"}

\* C15: every rejection of the header comes before the first hash or AES
\* call of the run: a run that ends with an error of a header check has
\* made no such call, and a run that has made one is past the checks of the
\* header and does not end with such an error
C15_RejectionsBeforeCrypto ==
    /\ result \in HeaderRejections => calls = <<>>
    /\ calls # <<>> => pc \in AfterHeader

\* the second child of keyEncryptor is rejected for its hash name, the
\* first having been accepted, and nothing has been hashed
C15_Witness ==
    /\ pc = "done"
    /\ result = "unsupported: hash"
    /\ Len(agile.children) = 2
    /\ IsPasswordKey(agile.children[1])
    /\ calls = <<>>

Next ==
    \/ Decrypt_CheckEmpty
    \/ Decrypt_OpenStorage
    \/ Decrypt_ReadStreams
    \/ Decrypt_ReadVersion
    \/ Decrypt_Route
    \/ Std_HeaderLength
    \/ Std_SkipFlags
    \/ Std_SizeExtra
    \/ Std_AlgId
    \/ Std_AlgIdHash
    \/ Std_KeyBits
    \/ Std_ProviderType
    \/ Std_Reserved1
    \/ Std_Reserved2
    \/ Std_CspName
    \/ Std_Salt
    \/ Std_VerifierInput
    \/ Std_VerifierHash
    \/ Std_H0
    \/ Std_SpinLoop
    \/ Std_DeriveKey
    \/ Std_DecryptPackage
    \/ Agile_KeyData
    \/ Agile_DataIntegrity
    \/ Agile_KeyEncryptors
    \/ Agile_Child
    \/ Agile_EndChildren
    \/ Agile_H0
    \/ Agile_SpinLoop
    \/ Agile_SpinLoopEnd
    \/ Agile_Verify
    \/ Agile_PackageKey
    \/ Agile_TotalSize
    \/ Agile_Segment
    \/ Agile_Finish

Spec == Init /\ [][Next]_vars

====
